---- MODULE Spec2Model ----
(***************************************************************************)
(* Model of calorista: the incremental merge of fetched food entries into  *)
(* the per-date Redis cache (src/calorista/main.py) and the FatSecret API  *)
(* client with its retry-by-recursion and token refresh                    *)
(* (src/calorista/utils/api.py, src/calorista/utils/auth.py).              *)
(*                                                                         *)
(* Text values of an entry (food_entry_id, date_int, timestamp) are        *)
(* sequences of one-character strings, so that the fingerprint's string    *)
(* concatenation and int(float(..)) are computed and not assumed.  A dict  *)
(* is a record; a missing key is a field that the record does not have.    *)
(***************************************************************************)
EXTENDS Integers, Sequences, FiniteSets, TLC

\* ------------------------------------------------------------------ bounds
\* Longest batch of entries handed to one load_entries_to_redis run.
MaxBatch == 2
\* Longest date range (in days) handed to get_historical_food_entries.
MaxSpan == 2
\* Distinct token values (request tokens, verifiers, access-token pairs) the
\* FatSecret server hands out.
MaxToken == 2

\* Longest oauth_token text of a token pair handed to save_tokens.
MaxTokenLen == 1

\* Error codes of a response run from 0 to MaxCode: every code that
\* valid_response names (the last is 207) and the codes next to them.
MaxCode == 208

\* A signed request has at most MaxParams parameters.
MaxParams == 3

\* The historical loader finds at most MaxFiles files to process.
MaxFiles == 2

\* ------------------------------------------------------- program constants
\* FatSecretAPI.__init__(auth, max_retries=2)
max_retries == 2

\* -------------------------------------------------------------- text values
Digits == {"0", "1", "2", "3", "4", "5", "6", "7", "8", "9"}

DigitVal(c) ==
  CASE c = "0" -> 0 [] c = "1" -> 1 [] c = "2" -> 2 [] c = "3" -> 3
    [] c = "4" -> 4 [] c = "5" -> 5 [] c = "6" -> 6 [] c = "7" -> 7
    [] c = "8" -> 8 [] c = "9" -> 9

RECURSIVE DigitsValue(_)
DigitsValue(s) ==
  IF s = <<>> THEN 0
  ELSE 10 * DigitsValue(SubSeq(s, 1, Len(s) - 1)) + DigitVal(s[Len(s)])

AllDigits(s) == \A i \in 1..Len(s) : s[i] \in Digits

\* Sentinel for Python's None.
None == -1

\* int(float(days_str)): decimal digits with an optional fraction, truncated
\* towards zero; anything else is a ValueError, reported as None.
ParseDays(s) ==
  LET dots == {i \in 1..Len(s) : s[i] = "."}
      cut  == IF dots = {} THEN Len(s) + 1 ELSE CHOOSE i \in dots : \A j \in dots : i <= j
      ip   == SubSeq(s, 1, cut - 1)
      fp   == SubSeq(s, cut + 1, Len(s))
  IN IF /\ AllDigits(ip) /\ AllDigits(fp)
        /\ Len(ip) + Len(fp) > 0
     THEN DigitsValue(ip)
     ELSE None

\* datetime(1970, 1, 1) + timedelta(days): the proleptic Gregorian date that
\* lies `days` days after the epoch, as <<year, month, day>>.
CivilFromDays(days) ==
  LET z   == days + 719468
      era == z \div 146097
      doe == z - era * 146097
      yoe == (doe - doe \div 1460 + doe \div 36524 - doe \div 146096) \div 365
      doy == doe - (365 * yoe + yoe \div 4 - yoe \div 100)
      mp  == (5 * doy + 2) \div 153
      d   == doy - (153 * mp + 2) \div 5 + 1
      m   == IF mp < 10 THEN mp + 3 ELSE mp - 9
      y   == yoe + era * 400 + (IF m <= 2 THEN 1 ELSE 0)
  IN <<y, m, d>>

\* (date - date(1970, 1, 1)).days
DaysFromCivil(date) ==
  LET y0  == date[1] - (IF date[2] <= 2 THEN 1 ELSE 0)
      era == y0 \div 400
      yoe == y0 - era * 400
      mp  == IF date[2] > 2 THEN date[2] - 3 ELSE date[2] + 9
      doy == (153 * mp + 2) \div 5 + date[3] - 1
      doe == yoe * 365 + yoe \div 4 - yoe \div 100 + doy
  IN era * 146097 + doe - 719468

\* The date is one day early: the epoch taken as day 1.
convert_days_to_date_from_day_one(days_str) ==
  IF ParseDays(days_str) = None THEN <<>> ELSE CivilFromDays(ParseDays(days_str) - 1)

\* convert_days_to_date: the "%Y-%m-%d" date, kept as <<year, month, day>>
\* (zero-padded formatting is one-to-one on these), or None.
convert_days_to_date(days_str) ==
  IF ParseDays(days_str) = None THEN <<>> ELSE CivilFromDays(ParseDays(days_str))

\* The decimal digits of n, left-padded with zeros to `width`: "%04d", "%02d".
RECURSIVE ZeroPadded(_, _)
ZeroPadded(n, width) ==
  IF width = 0 THEN <<>>
  ELSE Append(ZeroPadded(n \div 10, width - 1),
              CHOOSE c \in Digits : DigitVal(c) = n % 10)

\* strftime("%Y-%m-%d") of a date kept as <<year, month, day>>.
strftime(date) ==
  ZeroPadded(date[1], 4) \o <<"-">> \o ZeroPadded(date[2], 2) \o <<"-">> \o ZeroPadded(date[3], 2)

\* ------------------------------------------------------------------ entries
Has(e, k) == k \in DOMAIN e

\* entry.get(k, '')
Get(e, k) == IF Has(e, k) THEN e[k] ELSE <<>>

create_entry_fingerprint(entry) ==
  Get(entry, "food_entry_id") \o <<"_">> \o Get(entry, "date_int")
    \o <<"_">> \o Get(entry, "timestamp")

D85 == <<"2", "0", "1", "8", "5">>
D80 == <<"2", "0", "1", "8", "0">>

\* The fetched entries the model draws from: two that share a fingerprint and
\* differ in food_entry_name, another id, another day (date_int 20180), and one
\* with no date_int.
EntryA1 == [food_entry_id |-> <<"a">>, date_int |-> D85, timestamp |-> <<"1">>, food_entry_name |-> "x"]
EntryA2 == [food_entry_id |-> <<"a">>, date_int |-> D85, timestamp |-> <<"1">>, food_entry_name |-> "y"]
EntryB  == [food_entry_id |-> <<"b">>, date_int |-> D85, food_entry_name |-> "x"]
EntryC  == [food_entry_id |-> <<"a">>, date_int |-> D80, timestamp |-> <<"1">>, food_entry_name |-> "x"]
EntryNoDate == [food_entry_id |-> <<"a">>, timestamp |-> <<"1">>, food_entry_name |-> "x"]

\* Two more that the API can send: one with no food_entry_id and one whose
\* food_entry_id is the empty string.
EntryNoId == [date_int |-> D85, timestamp |-> <<"1">>, food_entry_name |-> "x"]
EntryBlankId == [food_entry_id |-> <<>>, date_int |-> D85, timestamp |-> <<"1">>, food_entry_name |-> "x"]

\* An entry is held in batches and buckets by its name; EntryOf gives the dict.
Entries == {"A1", "A2", "B", "C", "NoDate"}

EntryOf(name) ==
  CASE name = "A1" -> EntryA1
    [] name = "A2" -> EntryA2
    [] name = "B" -> EntryB
    [] name = "C" -> EntryC
    [] name = "NoDate" -> EntryNoDate
    [] name = "NoId" -> EntryNoId
    [] name = "Blank" -> EntryBlankId

\* What a food_entry list of a response can hold: these dicts, and an item
\* that is no dict.
Dicts == Entries \cup {"NoId", "Blank"}

isinstance_dict(item) == item \in Dicts

RECURSIVE SeqsUpTo(_, _)
SeqsUpTo(S, n) ==
  IF n = 0 THEN {<<>>}
  ELSE LET shorter == SeqsUpTo(S, n - 1)
       IN shorter \cup {Append(s, x) : s \in {t \in shorter : Len(t) = n - 1}, x \in S}

Batches == SeqsUpTo(Entries, MaxBatch)

Range(s) == {s[i] : i \in 1..Len(s)}

\* The two conversions of every entry of the model, computed once.
FingerprintOf[e \in Dicts] == create_entry_fingerprint(EntryOf(e))

HumanDateOf[e \in Entries] ==
  IF Has(EntryOf(e), "date_int") THEN convert_days_to_date(EntryOf(e)["date_int"]) ELSE <<>>

\* "k in entry", and entry == other (dict equality), over the entries held.
HasKey[e \in Entries, k \in {"date_int", "food_entry_id"}] == Has(EntryOf(e), k)

SameDict[e \in Entries, o \in Entries] == EntryOf(e) = EntryOf(o)

\* ------------------------------------------------------------ token files
\* A token dict is the sequence of its <<key, value>> items in insertion
\* order, keys and values being texts; {} is the empty sequence.
KeyToken == <<"o", "a", "u", "t", "h", "_", "t", "o", "k", "e", "n">>
KeySecret == KeyToken \o <<"_", "s", "e", "c", "r", "e", "t">>

\* dict(pair.split("=") for pair in response.text.split("&")) of a handshake
\* answer oauth_token=..&oauth_token_secret=..
TokenPair(token, secret) == <<(<<KeyToken, token>>), (<<KeySecret, secret>>)>>

\* The characters a token text is made of: a plain one and the two that JSON
\* escapes inside a string.
TokenChars == {"a", "\"", "\\"}

\* The pairs the model saves.
TokenPairs == {TokenPair(t, <<"s">>) : t \in SeqsUpTo(TokenChars, MaxTokenLen)}

\* json.dump of a str: the text between the quotes, the quote and the
\* backslash escaped by a backslash.
RECURSIVE Escaped(_)
Escaped(text) ==
  IF text = <<>> THEN <<>>
  ELSE (IF Head(text) \in {"\"", "\\"} THEN <<"\\", Head(text)>> ELSE <<Head(text)>>)
         \o Escaped(Tail(text))

\* The text written as it is, with no escaping.
QuotedRaw(text) == <<"\"">> \o text \o <<"\"">>

Quoted(text) == <<"\"">> \o Escaped(text) \o <<"\"">>

\* The items "key": "value" of a dict joined by `sep`.
RECURSIVE DumpItems(_, _)
DumpItems(d, sep) ==
  IF d = <<>> THEN <<>>
  ELSE Quoted(d[1][1]) \o <<":", " ">> \o Quoted(d[1][2])
         \o (IF Len(d) = 1 THEN <<>> ELSE sep \o DumpItems(Tail(d), sep))

\* json.dump(tokens, f) and json.dump(tokens, f, indent=2): the bytes written.
json_dump(d, indent) ==
  IF d = <<>> THEN <<"{", "}">>
  ELSE IF indent
  THEN <<"{", "\n", " ", " ">> \o DumpItems(d, <<",", "\n", " ", " ">>) \o <<"\n", "}">>
  ELSE <<"{">> \o DumpItems(d, <<",", " ">>) \o <<"}">>

\* What a step of the JSON decoder gives: a value and the index after it, or
\* a JSONDecodeError.
DecodeError == [ok |-> FALSE, value |-> <<>>, next |-> 0]
Decoded(value, next) == [ok |-> TRUE, value |-> value, next |-> next]

\* The index of the first character from i on that is no whitespace.
RECURSIVE SkipWhitespace(_, _)
SkipWhitespace(text, i) ==
  IF i <= Len(text) /\ text[i] \in {" ", "\n"} THEN SkipWhitespace(text, i + 1) ELSE i

At(text, i, c) == i <= Len(text) /\ text[i] = c

\* A JSON string from the character after its opening quote: escapes undone,
\* ended by the closing quote; a raw control character, an unknown escape or
\* the end of the text before the closing quote is an error.
RECURSIVE StringBody(_, _, _)
StringBody(text, i, acc) ==
  IF i > Len(text) THEN DecodeError
  ELSE IF text[i] = "\"" THEN Decoded(acc, i + 1)
  ELSE IF text[i] = "\\"
  THEN IF i + 1 <= Len(text) /\ text[i + 1] \in {"\"", "\\"}
       THEN StringBody(text, i + 2, Append(acc, text[i + 1]))
       ELSE DecodeError
  ELSE IF text[i] = "\n" THEN DecodeError
  ELSE StringBody(text, i + 1, Append(acc, text[i]))

\* d[key] = value on a dict: a key held keeps its place.
SetItem(d, key, value) ==
  IF \E i \in 1..Len(d) : d[i][1] = key
  THEN [i \in 1..Len(d) |-> IF d[i][1] = key THEN <<key, value>> ELSE d[i]]
  ELSE Append(d, <<key, value>>)

\* The members of an object from index i on, up to and with its closing brace.
RECURSIVE Members(_, _, _)
Members(text, i, acc) ==
  LET i1 == SkipWhitespace(text, i)
      k  == IF At(text, i1, "\"") THEN StringBody(text, i1 + 1, <<>>) ELSE DecodeError
      i2 == SkipWhitespace(text, k.next)
      i3 == SkipWhitespace(text, i2 + 1)
      v  == IF k.ok /\ At(text, i2, ":") /\ At(text, i3, "\"")
            THEN StringBody(text, i3 + 1, <<>>) ELSE DecodeError
      i4 == SkipWhitespace(text, v.next)
  IN IF ~v.ok THEN DecodeError
     ELSE IF At(text, i4, ",") THEN Members(text, i4 + 1, SetItem(acc, k.value, v.value))
     ELSE IF At(text, i4, "}") THEN Decoded(SetItem(acc, k.value, v.value), i4 + 1)
     ELSE DecodeError

\* json.load(f) on the texts of the model, which are objects of strings or
\* no JSON at all: the dict, or a JSONDecodeError (empty text, a text cut
\* short, text after the object).
json_load(text) ==
  LET i0  == SkipWhitespace(text, 1)
      i1  == SkipWhitespace(text, i0 + 1)
      obj == IF ~At(text, i0, "{") THEN DecodeError
             ELSE IF At(text, i1, "}") THEN Decoded(<<>>, i1 + 1)
             ELSE Members(text, i0 + 1, <<>>)
  IN IF obj.ok /\ SkipWhitespace(text, obj.next) > Len(text) THEN obj ELSE DecodeError

\* The token file: absent, or its bytes.
Absent == [exists |-> FALSE, text |-> <<>>]
File(text) == [exists |-> TRUE, text |-> text]

\* The three token stores of the repository.
StoreClasses == {"auth.TokenManager", "token_manager.TokenManager", "CredentialEngine"}

\* CredentialEngine.save_tokens passes indent=2, the TokenManagers do not.
Indented(class) == class = "CredentialEngine"

\* What a call gives: a value returned, or an exception raised.
Loaded(value) == [kind |-> "returned", tokens |-> value, error |-> "none"]
Failing(error) == [kind |-> "raised", tokens |-> <<>>, error |-> error]

\* _load_tokens of auth.TokenManager: no size test and no except clause.
LoadUnguarded(file) ==
  IF file.exists
  THEN IF json_load(file.text).ok
       THEN Loaded(json_load(file.text).value)
       ELSE Failing("JSONDecodeError")
  ELSE Loaded(<<>>)

\* _load_tokens of token_manager.TokenManager and of CredentialEngine: a
\* zero-byte file is {}, and so is a file that does not decode.
LoadGuarded(file) ==
  IF file.exists
  THEN IF Len(file.text) = 0 \/ ~json_load(file.text).ok
       THEN Loaded(<<>>)
       ELSE Loaded(json_load(file.text).value)
  ELSE Loaded(<<>>)

_load_tokens(class, file) ==
  IF class = "auth.TokenManager" THEN LoadUnguarded(file) ELSE LoadGuarded(file)

\* get_tokens: self.tokens if self.tokens else None
get_tokens(tokens) == [is_none |-> tokens = <<>>, value |-> tokens]

\* --------------------------------------------------------- valid_response
\* response.json() is the sequence of its items in the order of the JSON
\* text; an item is its key with, for "error", the code and the message, and
\* for any other key its value.
ErrorItem(code) == [key |-> "error", code |-> code, message |-> "m", value |-> ""]
ValueItem(key, value) == [key |-> key, code |-> 0, message |-> "", value |-> value]

ErrorCodes == 0..MaxCode

\* Keys next to "error": two that valid_response returns on, one it skips.
OtherItems ==
  {ValueItem("success", "1"), ValueItem("food_entry_id", "7"), ValueItem("unknown", "x")}

\* The JSON dicts of the model: empty, one item, or an error item with
\* another item before or after it.
JsonResponses ==
  {<<>>}
    \cup {<<ErrorItem(c)>> : c \in ErrorCodes}
    \cup {<<o>> : o \in OtherItems}
    \cup {<<ErrorItem(c), o>> : c \in ErrorCodes, o \in OtherItems}
    \cup {<<o, ErrorItem(c)>> : c \in ErrorCodes, o \in OtherItems}

NotCalled == [kind |-> "none", class |-> "", code |-> 0, message |-> "", value |-> ""]
Raise(class, code, message) ==
  [kind |-> "raise", class |-> class, code |-> code, message |-> message, value |-> ""]
Return(value) ==
  [kind |-> "return", class |-> "", code |-> 0, message |-> "", value |-> value]

\* src/utils/auth.py:135-152: the branches of `if key == "error"`; with a
\* code that none of them names, the for loop goes on to the next key.
OnErrorKey(item, rest) ==
  IF item.code = 2
  THEN Raise("AuthenticationError", 2, "This api call requires an authenticated session")
  ELSE IF item.code \in {1, 10, 11, 12, 20, 21} THEN Raise("GeneralError", item.code, item.message)
  ELSE IF 3 <= item.code /\ item.code <= 9 THEN Raise("AuthenticationError", item.code, item.message)
  ELSE IF 101 <= item.code /\ item.code <= 108 THEN Raise("ParameterError", item.code, item.message)
  ELSE IF 201 <= item.code /\ item.code <= 207 THEN Raise("ApplicationError", item.code, item.message)
  ELSE rest

\* src/utils/auth.py:131-205, the for loop from item i on: the first key
\* with a branch that returns or raises decides; falling off the end of the
\* loop returns None.
RECURSIVE ValidResponseFrom(_, _)
ValidResponseFrom(json, i) ==
  IF i > Len(json) THEN Return("None")
  ELSE IF json[i].key = "error" THEN OnErrorKey(json[i], ValidResponseFrom(json, i + 1))
  ELSE IF json[i].key = "success" THEN Return("True")
  ELSE IF json[i].key = "food_entry_id" THEN Return(json[i].value)
  ELSE ValidResponseFrom(json, i + 1)

\* src/utils/auth.py:122-205: `if response.json():` is false for {}.
valid_response(json) == IF json = <<>> THEN Return("None") ELSE ValidResponseFrom(json, 1)

\* ----------------------------------------------------- _generate_signature
\* ord(c) for the characters of the parameter names, values and URLs.
Ord(c) ==
  CASE c \in Digits -> 48 + DigitVal(c)
    [] c = "%" -> 37 [] c = "&" -> 38 [] c = "/" -> 47 [] c = ":" -> 58
    [] c = "=" -> 61 [] c = "A" -> 65 [] c = "B" -> 66 [] c = "C" -> 67
    [] c = "D" -> 68 [] c = "E" -> 69 [] c = "F" -> 70 [] c = "G" -> 71
    [] c = "T" -> 84 [] c = "a" -> 97 [] c = "b" -> 98 [] c = "c" -> 99
    [] c = "h" -> 104 [] c = "s" -> 115 [] c = "u" -> 117 [] c = "x" -> 120

\* str < str: by code point, a proper prefix first.
RECURSIVE LessText(_, _)
LessText(a, b) ==
  IF b = <<>> THEN FALSE
  ELSE IF a = <<>> THEN TRUE
  ELSE IF Head(a) # Head(b) THEN Ord(Head(a)) < Ord(Head(b))
  ELSE LessText(Tail(a), Tail(b))

\* (k, v) < (k2, v2) on tuples of strings.
LessItem(a, b) == LessText(a[1], b[1]) \/ (a[1] = b[1] /\ LessText(a[2], b[2]))

\* The items are left in the order of the dict.
unsorted(items) == items

\* sorted(params.items()): ascending.
RECURSIVE sorted(_)
sorted(items) ==
  IF items = <<>> THEN <<>>
  ELSE LET least == CHOOSE i \in 1..Len(items) :
                      \A j \in 1..Len(items) : j = i \/ LessItem(items[i], items[j])
                                                      \/ (items[i] = items[j] /\ i < j)
       IN <<items[least]>> \o sorted(SubSeq(items, 1, least - 1) \o SubSeq(items, least + 1, Len(items)))

HexDigit(n) ==
  CASE n < 10 -> (CHOOSE c \in Digits : DigitVal(c) = n)
    [] n = 10 -> "A" [] n = 11 -> "B" [] n = 12 -> "C"
    [] n = 13 -> "D" [] n = 14 -> "E" [] n = 15 -> "F"

\* Letters, digits and the four marks _ . - ~ (none of them among the
\* characters above) are never quoted.
Unreserved(c) ==
  \/ Ord(c) >= 48 /\ Ord(c) <= 57
  \/ Ord(c) >= 65 /\ Ord(c) <= 90
  \/ Ord(c) >= 97 /\ Ord(c) <= 122

\* urllib.parse.quote(text, safe=""): every other character as %XX.
RECURSIVE quote(_)
quote(text) ==
  IF text = <<>> THEN <<>>
  ELSE (IF Unreserved(Head(text)) THEN <<Head(text)>>
        ELSE <<"%", HexDigit(Ord(Head(text)) \div 16), HexDigit(Ord(Head(text)) % 16)>>)
       \o quote(Tail(text))

\* sep.join(parts)
RECURSIVE Join(_, _)
Join(sep, parts) ==
  IF parts = <<>> THEN <<>>
  ELSE IF Len(parts) = 1 THEN parts[1]
  ELSE parts[1] \o sep \o Join(sep, Tail(parts))

\* api.py:42-45, auth.py:82-85
ParamString(params) ==
  LET items == sorted(params)
  IN Join(<<"&">>, [i \in 1..Len(items) |-> items[i][1] \o <<"=">> \o quote(items[i][2])])

\* api.py:47-53, auth.py:87-93
BaseString(url, params) ==
  Join(<<"&">>, <<(<<"G", "E", "T">>), quote(url), quote(ParamString(params))>>)

CONSUMER_SECRET == <<"c">>

\* base64(HMAC-SHA1(key, message)): kept as the pair it is computed from, so
\* that two signatures are equal exactly when key and message are.
HmacSha1Base64(key, message) == [key |-> key, message |-> message]

\* api.py:40-61 (url = self.base_url, token_secret = self.access_token_secret)
\* and auth.py:79-101.
_generate_signature(url, params, token_secret) ==
  HmacSha1Base64(CONSUMER_SECRET \o <<"&">> \o token_secret, BaseString(url, params))

\* The parameter names and values of the model: an upper-case name, a name
\* that is a prefix of another, and a value that quote changes.
ParamKeys == {<<"a">>, <<"B">>, <<"a", "b">>}
ParamValues == {<<"x">>, <<"&", "=">>}

\* A dict of parameters is the sequence of its (key, value) items in
\* insertion order; no key twice.
ParamMappings ==
  {p \in SeqsUpTo(ParamKeys \X ParamValues, MaxParams) :
     \A i, j \in 1..Len(p) : p[i][1] = p[j][1] => i = j}

\* The two callers: FatSecretAPI signs for its base URL with the access
\* token secret, FatSecretAuth for the request-token URL with no secret.
Signers ==
  {[class |-> "FatSecretAPI", url |-> <<"h", ":", "/", "a">>, token_secret |-> <<"s">>],
   [class |-> "FatSecretAuth", url |-> <<"h", ":", "/", "u">>, token_secret |-> <<>>]}

\* ------------------------------------------------------------------- state
VARIABLES
  buckets,        \* Redis: date |-> the JSON list stored at food_entries:<date>
  date_mappings,  \* Redis hash date_mappings: date |-> str(date_int)
  lastBatch,      \* the batch of the latest load_entries_to_redis run
  writes,         \* the dates that run wrote (SET + HSET), in order
  loaded_count,   \* that run's "available for loading" counter
  skipped_count   \* that run's "skipped (invalid)" counter

VARIABLES
  tokens,         \* TokenManager.tokens: 0 for {}, else the access-token pair
  tokenFile,      \* the token file: 0 when absent, else the pair it holds
  access_token,   \* FatSecretAPI.access_token / access_token_secret (one pair)
  verifier,       \* FatSecretAuth.verifier: 0 for None
  serverRunning,  \* the Flask callback thread has been started
  token_data,     \* authenticate's request token: 0 before get_request_token
  pc,             \* position of the running _make_request call
  attempt,        \* its attempt argument
  responses,      \* what requests.get at api.py:97 answered or raised, in order
  events,         \* the call's GETs (with the token sent), refreshes, handshakes
  result,         \* what the outermost _make_request returned or raised
  caller,         \* the operation in progress: none, direct, range, main
  rfPc,           \* position of get_historical_food_entries
  rf,             \* its locals: start, end, current, all_entries, and the calls made
  mainPc,         \* position of main
  mainLog         \* main's run: API calls made and failed, how it ended

VARIABLES
  storeClass,     \* the class of the token store under save_tokens and clear_tokens
  disk,           \* the token file as the file system holds it: absent, or its bytes
  store,          \* that store: constructed or not, and its self.tokens
  save,           \* its latest save_tokens or clear_tokens: position, argument, file found
  other           \* the latest store another process built on the same file

VARIABLES
  response,       \* the JSON dict of the response handed to valid_response
  outcome,        \* what valid_response did with it: returned a value or raised
  signed,         \* the _generate_signature calls made: parameters, strings, result
  historical_entries, \* the list get_historical_food_entries returned
  collected,      \* what get_historical_entries made of it
  hist            \* the run of the historical loader: position, --force, files left

syncVars == <<buckets, date_mappings, lastBatch, writes, loaded_count, skipped_count>>
tokenVars == <<tokens, tokenFile, access_token, verifier, serverRunning, token_data>>
callVars == <<pc, attempt, responses, events, result>>
opVars == <<caller, rfPc, rf, mainPc, mainLog>>
storeVars == <<storeClass, disk, store, save, other>>
fnVars == <<response, outcome, signed, historical_entries, collected>>
histVars == <<hist>>
auxVars == <<fnVars, histVars>>
vars == <<syncVars, tokenVars, callVars, opVars, storeVars, auxVars>>

\* ------------------------------------------------- load_entries_to_redis
\* Lines 114-125: an entry is grouped when it has both keys and its date_int
\* converts.
Groupable(entry) ==
  /\ HasKey[entry, "date_int"]
  /\ HasKey[entry, "food_entry_id"]
  /\ HumanDateOf[entry] # <<>>

\* date_groups[date]: the groupable entries of the date, in batch order.
DateGroup(entries, date) ==
  SelectSeq(entries, LAMBDA e : Groupable(e) /\ HumanDateOf[e] = date)

\* The keys of date_groups in insertion order (first appearance in the batch).
RECURSIVE GroupOrder(_)
GroupOrder(entries) ==
  IF entries = <<>> THEN <<>>
  ELSE LET front == GroupOrder(SubSeq(entries, 1, Len(entries) - 1))
           e     == entries[Len(entries)]
       IN IF Groupable(e) /\ HumanDateOf[e] \notin Range(front)
          THEN Append(front, HumanDateOf[e])
          ELSE front

\* Lines 110-125 for every batch of the model, computed once: the keys of
\* date_groups in order, date_groups itself, and the loaded counter.
GroupOrderOf[entries \in Batches] == GroupOrder(entries)

DateGroupOf[entries \in Batches] ==
  [date \in Range(GroupOrder(entries)) |-> DateGroup(entries, date)]

LoadedCount[entries \in Batches] == Len(SelectSeq(entries, Groupable))

\* Lines 134-138: fingerprint |-> entry over the stored entries that have a
\* food_entry_id; a later entry with the same fingerprint overwrites an
\* earlier one.
ExistingIndexes(existing_entries, fingerprint) ==
  {i \in 1..Len(existing_entries) :
     /\ HasKey[existing_entries[i], "food_entry_id"]
     /\ FingerprintOf[existing_entries[i]] = fingerprint}

ExistingFor(existing_entries, fingerprint) ==
  LET ix == ExistingIndexes(existing_entries, fingerprint)
  IN existing_entries[CHOOSE i \in ix : \A j \in ix : j <= i]

\* Lines 140-146: new entries whose fingerprint is not stored, or is stored
\* with different content.
NeedsUpdate(existing_entries, entry) ==
  \/ ExistingIndexes(existing_entries, FingerprintOf[entry]) = {}
  \/ ~SameDict[entry, ExistingFor(existing_entries, FingerprintOf[entry])]

EntriesToUpdate(existing_entries, new_entries) ==
  SelectSeq(new_entries, LAMBDA e : NeedsUpdate(existing_entries, e))

\* The updates appended and nothing removed.
UpdatedEntriesAppendOnly(existing_entries, entries_to_update) ==
  existing_entries \o entries_to_update

\* The bucket rewritten from the batch alone.
UpdatedEntriesFromBatchOnly(existing_entries, entries_to_update) == entries_to_update

\* Lines 149-154: the stored entries that are not superseded, then the updates.
UpdatedEntries(existing_entries, entries_to_update) ==
  SelectSeq(existing_entries,
            LAMBDA e : FingerprintOf[e] \notin
                         {FingerprintOf[ne] : ne \in Range(entries_to_update)})
    \o entries_to_update

\* redis_client.exists / get
ExistingEntries(b, date) == IF date \in DOMAIN b THEN b[date] ELSE <<>>

\* dict / Redis write: key |-> value added or replaced
Put(f, k, v) == [x \in DOMAIN f \cup {k} |-> IF x = k THEN v ELSE f[x]]

\* The mapping of a date gets the date_int of the first entry of the batch,
\* not of the first entry of the date.
RECURSIVE MergeLoopMappingFromBatch(_, _, _, _)
MergeLoopMappingFromBatch(entries, order, i, st) ==
  IF i > Len(order) THEN st
  ELSE LET date == order[i]
           new_entries == DateGroupOf[entries][date]
           existing_entries == ExistingEntries(st.b, date)
           entries_to_update == EntriesToUpdate(existing_entries, new_entries)
       IN IF entries_to_update # <<>>
          THEN MergeLoopMappingFromBatch(entries, order, i + 1,
                 [b |-> Put(st.b, date, UpdatedEntries(existing_entries, entries_to_update)),
                  m |-> Put(st.m, date, Get(EntryOf(entries[1]), "date_int")),
                  w |-> Append(st.w, date)])
          ELSE MergeLoopMappingFromBatch(entries, order, i + 1, st)

\* Lines 127-160 for the dates order[i..]: state after the loop, as
\* [b, m, w] = buckets, date_mappings, dates written.
RECURSIVE MergeLoop(_, _, _, _)
MergeLoop(entries, order, i, st) ==
  IF i > Len(order) THEN st
  ELSE LET date == order[i]
           new_entries == DateGroupOf[entries][date]
           existing_entries == ExistingEntries(st.b, date)
           entries_to_update == EntriesToUpdate(existing_entries, new_entries)
       IN IF entries_to_update # <<>>
          THEN MergeLoop(entries, order, i + 1,
                 [b |-> Put(st.b, date, UpdatedEntries(existing_entries, entries_to_update)),
                  m |-> Put(st.m, date, EntryOf(new_entries[1])["date_int"]),
                  w |-> Append(st.w, date)])
          ELSE MergeLoop(entries, order, i + 1, st)

Merged(b, m, entries) ==
  MergeLoop(entries, GroupOrderOf[entries], 1, [b |-> b, m |-> m, w |-> <<>>])

\* An entry without date_int raises out of the run before anything is written.
load_entries_to_redis_aborting(entries) ==
  IF \E e \in Range(entries) : ~HasKey[e, "date_int"]
  THEN /\ UNCHANGED <<buckets, date_mappings>>
       /\ writes' = <<>>
       /\ lastBatch' = entries
       /\ loaded_count' = 0
       /\ skipped_count' = 0
  ELSE \E r \in {Merged(buckets, date_mappings, entries)} :
         /\ buckets' = r.b
         /\ date_mappings' = r.m
         /\ writes' = r.w
         /\ lastBatch' = entries
         /\ loaded_count' = LoadedCount[entries]
         /\ skipped_count' = Len(entries) - LoadedCount[entries]

load_entries_to_redis(entries) ==
  \E r \in {Merged(buckets, date_mappings, entries)} :
     /\ buckets' = r.b
     /\ date_mappings' = r.m
     /\ writes' = r.w
     /\ lastBatch' = entries
     /\ loaded_count' = LoadedCount[entries]
     /\ skipped_count' = Len(entries) - LoadedCount[entries]

\* --------------------------------------------------------- HTTP responses
BodyToken == <<"T", "o", "k", "e", "n">>
BodyOther == <<"o", "o", "p", "s">>

\* str.lower() on the characters the bodies use.
LowerChar(c) ==
  CASE c = "T" -> "t" [] c = "O" -> "o" [] c = "K" -> "k" [] c = "E" -> "e"
    [] c = "N" -> "n" [] OTHER -> c

Lower(text) == [i \in 1..Len(text) |-> LowerChar(text[i])]

\* needle in text
Contains(text, needle) ==
  \E i \in 0..(Len(text) - Len(needle)) :
    \A k \in 1..Len(needle) : text[i + k] = needle[k]

\* The body is not looked at: every non-200 counts as a token failure.
TokenRelatedAlways(text) == TRUE

\* The body is not lower-cased before the search.
TokenRelatedCaseSensitive(text) == Contains(text, <<"t", "o", "k", "e", "n">>)

\* api.py:107-108: "token" in response.text.lower()
TokenRelated(text) == Contains(Lower(text), <<"t", "o", "k", "e", "n">>)

\* The JSON bodies of a 200: an empty day and two days of one entry each.
Payloads == {"P0", "P1", "P2"}

\* What else a day of the list can be: days of several items, None, and a
\* body whose food_entries is a string.
DailyResults == Payloads \cup {"P3", "P4", "PNone", "PBad"}

\* main.py:76: daily_result.get("food_entries") is a non-empty string, and
\* line 81 calls .get on it: AttributeError.
RaisesInDay(payload) == payload = "PBad"

PayloadEntries(payload) ==
  CASE payload = "P0" -> <<>>
    [] payload = "P1" -> <<"A1">>
    [] payload = "P2" -> <<"A2">>
    [] payload = "P3" -> <<"B", "A1", "NoId", "A2">>
    [] payload = "P4" -> <<"Blank", "NotDict", "A2", "B">>
    [] payload = "PNone" -> <<>>

NoData == "none"

Ok(payload) == [kind |-> "http", status |-> 200, text |-> <<>>, data |-> payload]
Failed(status, text) == [kind |-> "http", status |-> status, text |-> text, data |-> NoData]
Raised == [kind |-> "RequestException", status |-> 0, text |-> <<>>, data |-> NoData]

\* What requests.get can answer or raise for a data request.
ApiResponses ==
  {Ok(payload) : payload \in Payloads}
    \cup {Failed(401, BodyToken), Failed(500, BodyOther), Raised}

\* What it can answer or raise for a handshake request; a 200 carries a token.
AuthResponses ==
  {[kind |-> "http", status |-> 200, token |-> t] : t \in 1..MaxToken}
    \cup {[kind |-> "http", status |-> 400, token |-> 0],
          [kind |-> "RequestException", status |-> 0, token |-> 0]}

\* ----------------------------------------------------------- _make_request
NoResult == [kind |-> "none", status |-> 0, text |-> <<>>, data |-> NoData]

Event(e, tok) == [e |-> e, tok |-> tok]

\* Off by one: one retry too many.
CanRetryInclusive(a) == a <= max_retries

\* api.py:108 and 117: attempt < self.max_retries
CanRetry(a) == a < max_retries

\* The transport error raised at once, without a retry.
OnRequestExceptionNoRetry ==
  /\ attempt' = attempt
  /\ pc' = "done"
  /\ result' = [kind |-> "network_error", status |-> 0, text |-> <<>>, data |-> "none"]

\* The transport-error retry does not use up an attempt: it counts for
\* itself, apart from the token-failure retries.
OnRequestExceptionOwnCounter ==
  IF CanRetry(attempt)
  THEN /\ attempt' = attempt
       /\ pc' = "send"
       /\ result' = result
  ELSE /\ attempt' = attempt
       /\ pc' = "done"
       /\ result' = [kind |-> "network_error", status |-> 0, text |-> <<>>, data |-> NoData]

\* api.py:116-119, reached by a RequestException raised anywhere in the try
\* block of the frame running at `attempt`.
OnRequestException ==
  IF CanRetry(attempt)
  THEN /\ attempt' = attempt + 1
       /\ pc' = "send"
       /\ result' = result
  ELSE /\ attempt' = attempt
       /\ pc' = "done"
       /\ result' = [kind |-> "network_error", status |-> 0, text |-> <<>>, data |-> NoData]

\* An exception that is no RequestException leaves every frame of the call.
Propagate(kind, status, text) ==
  /\ attempt' = attempt
  /\ pc' = "done"
  /\ result' = [kind |-> kind, status |-> status, text |-> text, data |-> NoData]

\* The call enters _make_request(method, params) with attempt = 0.
EnterRequest ==
  /\ pc' = "send"
  /\ attempt' = 0
  /\ responses' = <<>>
  /\ events' = <<>>
  /\ result' = NoResult

\* The caller has taken the result: no call is in progress.
LeaveRequest ==
  /\ pc' = "idle"
  /\ attempt' = 0
  /\ responses' = <<>>
  /\ events' = <<>>
  /\ result' = NoResult

\* api.py:32-38 up to the first I/O: tokens held are taken as they are;
\* with none, authenticate (auth.py:161-173) goes for a request token.
RefreshTokens ==
  IF tokens # 0
  THEN /\ access_token' = tokens
       /\ attempt' = attempt + 1
       /\ pc' = "send"
  ELSE /\ access_token' = access_token
       /\ attempt' = attempt
       /\ pc' = "request_token"

\* The retry without the refresh.
OnTokenFailureNoRefresh ==
  /\ events' = Append(events, Event("get", access_token))
  /\ attempt' = attempt + 1
  /\ pc' = "send"
  /\ result' = result
  /\ UNCHANGED access_token

\* api.py:108-110: the tokens are refreshed, then the call is retried.
OnTokenFailure ==
  /\ events' = events \o <<Event("get", access_token), Event("refresh", tokens)>>
  /\ RefreshTokens
  /\ result' = result

\* api.py:80-114: one requests.get and what follows it up to the next I/O.
SendRequest(r) ==
  /\ pc = "send"
  /\ responses' = Append(responses, r)
  /\ UNCHANGED <<tokens, tokenFile, verifier, serverRunning, token_data>>
  /\ IF r.kind = "RequestException"
     THEN /\ events' = Append(events, Event("get", access_token))
          /\ OnRequestException
          /\ UNCHANGED access_token
     ELSE IF r.status = 200
     THEN /\ events' = Append(events, Event("get", access_token))
          /\ attempt' = attempt
          /\ pc' = "done"
          /\ result' = [kind |-> "ok", status |-> 200, text |-> <<>>, data |-> r.data]
          /\ UNCHANGED access_token
     ELSE IF TokenRelated(r.text) /\ CanRetry(attempt)
     THEN OnTokenFailure
     ELSE /\ events' = Append(events, Event("get", access_token))
          /\ Propagate("api_error", r.status, r.text)
          /\ UNCHANGED access_token

\* The callers that run the handshake outside a _make_request call:
\* authenticate called on its own, and FatSecretAPI.__init__ (api.py:30).
OwnHandshake == {"authenticate", "init"}

\* The log of a handshake step: every step, with what it got, for these
\* callers; a _make_request call logs of its handshake only that the
\* request-token GET was made.
HandshakeLog(steps) ==
  IF caller \in OwnHandshake
  THEN events \o steps
  ELSE events \o [i \in 1..Len(SelectSeq(steps, LAMBDA ev : ev.e = "handshake"))
                    |-> Event("handshake", 0)]

\* A RequestException raised by a handshake request: authenticate re-raises
\* it (auth.py:188-190); inside _make_request it reaches api.py:116.
HandshakeException ==
  IF caller \in OwnHandshake
  THEN Propagate("network_error", 0, <<>>)
  ELSE OnRequestException

\* What authenticate hands back to the code that called it.
TokensReturned == [kind |-> "tokens", status |-> 200, text |-> <<>>, data |-> NoData]

\* A non-200 answer makes the request-token step ask again.
GetRequestTokenRetrying(r) ==
  /\ pc = "request_token"
  /\ UNCHANGED <<tokens, tokenFile, verifier, access_token, responses>>
  /\ events' = HandshakeLog(<<Event("handshake", r.status)>>)
  /\ IF r.kind = "RequestException"
     THEN /\ HandshakeException
          /\ UNCHANGED <<serverRunning, token_data>>
     ELSE IF r.status = 200
     THEN /\ token_data' = r.token
          /\ serverRunning' = TRUE
          /\ pc' = "get_verifier"
          /\ UNCHANGED <<attempt, result>>
     ELSE UNCHANGED <<pc, attempt, result, serverRunning, token_data>>

\* auth.py:103-117, then get_verifier up to its wait (auth.py:119-134).
GetRequestToken(r) ==
  /\ pc = "request_token"
  /\ UNCHANGED <<tokens, tokenFile, verifier, access_token, responses>>
  /\ events' = HandshakeLog(<<Event("handshake", r.status)>>)
  /\ IF r.kind = "RequestException"
     THEN /\ HandshakeException
          /\ UNCHANGED <<serverRunning, token_data>>
     ELSE IF r.status = 200
     THEN /\ token_data' = r.token
          /\ serverRunning' = TRUE
          /\ pc' = "get_verifier"
          /\ UNCHANGED <<attempt, result>>
     ELSE /\ Propagate("auth_error", r.status, <<>>)
          /\ UNCHANGED <<serverRunning, token_data>>

\* auth.py:134-137: the wait ends once self.verifier is set.
GetVerifier ==
  /\ pc = "get_verifier"
  /\ verifier # 0
  /\ pc' = "access_token"
  /\ events' = HandshakeLog(<<Event("verifier", verifier)>>)
  /\ UNCHANGED <<tokenVars, attempt, responses, result>>

\* auth.py:58-62: the callback route of the Flask thread.
Callback(v) ==
  /\ serverRunning
  /\ verifier' = v
  /\ UNCHANGED <<tokens, tokenFile, access_token, serverRunning, token_data>>
  /\ UNCHANGED <<syncVars, callVars, opVars, storeVars, auxVars>>

\* auth.py:184-186 reached by a 200: the pair is saved and returned; inside
\* _make_request, api.py:37-38 then take it and line 110 retries the call.
SaveAndReturn(pair) ==
  /\ tokenFile' = pair
  /\ tokens' = pair
  /\ IF caller \in OwnHandshake
     THEN /\ events' = HandshakeLog(<<Event("exchange", 200), Event("save", pair), Event("return", pair)>>)
          /\ access_token' = IF caller = "init" THEN pair ELSE access_token
          /\ attempt' = attempt
          /\ pc' = "done"
          /\ result' = TokensReturned
     ELSE /\ events' = HandshakeLog(<<Event("exchange", 200), Event("save", pair)>>)
          /\ access_token' = pair
          /\ attempt' = attempt + 1
          /\ pc' = "send"
          /\ result' = result

\* The answer's pair is saved before its status is looked at.
GetAccessTokenSavingFirst(r) ==
  /\ pc = "access_token"
  /\ UNCHANGED <<verifier, serverRunning, token_data, responses>>
  /\ IF r.kind = "RequestException"
     THEN /\ events' = HandshakeLog(<<Event("exchange", r.status)>>)
          /\ HandshakeException
          /\ UNCHANGED <<tokens, tokenFile, access_token>>
     ELSE IF r.status = 200
     THEN SaveAndReturn(r.token)
     ELSE /\ events' = HandshakeLog(<<Event("exchange", r.status), Event("save", r.token)>>)
          /\ Propagate("auth_error", r.status, <<>>)
          /\ tokenFile' = r.token
          /\ tokens' = r.token
          /\ UNCHANGED access_token

\* auth.py:139-159 and what follows the answer.
GetAccessToken(r) ==
  /\ pc = "access_token"
  /\ UNCHANGED <<verifier, serverRunning, token_data, responses>>
  /\ IF r.kind = "RequestException"
     THEN /\ events' = HandshakeLog(<<Event("exchange", r.status)>>)
          /\ HandshakeException
          /\ UNCHANGED <<tokens, tokenFile, access_token>>
     ELSE IF r.status = 200
     THEN SaveAndReturn(r.token)
     ELSE /\ events' = HandshakeLog(<<Event("exchange", r.status)>>)
          /\ Propagate("auth_error", r.status, <<>>)
          /\ UNCHANGED <<tokens, tokenFile, access_token>>

\* One step of the handshake that authenticate runs.
HandshakeStep ==
  /\ \/ \E r \in AuthResponses : GetRequestToken(r)
     \/ GetVerifier
     \/ \E r \in AuthResponses : GetAccessToken(r)
  /\ UNCHANGED <<syncVars, opVars, storeVars, auxVars>>

\* One step of the running _make_request call.
MakeRequestStep ==
  /\ \/ \E r \in ApiResponses : SendRequest(r)
     \/ \E r \in AuthResponses : GetRequestToken(r)
     \/ GetVerifier
     \/ \E r \in AuthResponses : GetAccessToken(r)
  /\ UNCHANGED <<syncVars, opVars, storeVars, auxVars>>

\* ------------------------------------------------- operations of the client
Idle == caller = "none" /\ pc = "idle"

NoRange == [start |-> 0, end |-> 0, current |-> 0, all_entries |-> <<>>, calls |-> <<>>]

NoMain == [calls |-> 0, failed |-> 0, network |-> 0, outcome |-> "none"]

\* main's count of its API calls: made, failed, failed as a network error.
Counted(log, res) ==
  [log EXCEPT !.calls = @ + 1,
              !.failed = @ + (IF res.kind = "ok" THEN 0 ELSE 1),
              !.network = @ + (IF res.kind = "network_error" THEN 1 ELSE 0)]

\* A single call: get_user_weight, get_todays_food_entries, search_foods, ...
StartCall ==
  /\ Idle
  /\ caller' = "direct"
  /\ EnterRequest
  /\ UNCHANGED <<syncVars, tokenVars, rfPc, rf, mainPc, mainLog, storeVars, auxVars>>

FinishCall ==
  /\ caller = "direct"
  /\ pc = "done"
  /\ caller' = "none"
  /\ LeaveRequest
  /\ UNCHANGED <<syncVars, tokenVars, rfPc, rf, mainPc, mainLog, storeVars, auxVars>>

\* auth.py:192-194 and 42-45
logout ==
  /\ Idle
  /\ tokenFile' = 0
  /\ tokens' = 0
  /\ UNCHANGED <<access_token, verifier, serverRunning, token_data>>
  /\ UNCHANGED <<syncVars, callVars, opVars, storeVars, auxVars>>

\* The cached pair is not looked at: the handshake runs every time.
authenticate_uncached ==
  /\ Idle
  /\ caller' = "authenticate"
  /\ attempt' = 0
  /\ responses' = <<>>
  /\ events' = <<Event("authenticate", tokens)>>
  /\ pc' = "request_token"
  /\ result' = NoResult
  /\ UNCHANGED <<syncVars, tokenVars, rfPc, rf, mainPc, mainLog, storeVars, auxVars>>

\* auth.py:161-173: authenticate called on its own; a pair held by the token
\* manager is returned at once, else the handshake starts.
authenticate ==
  /\ Idle
  /\ caller' = "authenticate"
  /\ attempt' = 0
  /\ responses' = <<>>
  /\ IF tokens # 0
     THEN /\ events' = <<Event("authenticate", tokens), Event("return", tokens)>>
          /\ pc' = "done"
          /\ result' = TokensReturned
     ELSE /\ events' = <<Event("authenticate", tokens)>>
          /\ pc' = "request_token"
          /\ result' = NoResult
  /\ UNCHANGED <<syncVars, tokenVars, rfPc, rf, mainPc, mainLog, storeVars, auxVars>>

\* api.py:19-38: FatSecretAPI(auth): the pair the token manager holds is
\* taken; with none, authenticate runs the handshake and its pair is taken.
FatSecretAPI_init ==
  /\ Idle
  /\ caller' = "init"
  /\ attempt' = 0
  /\ responses' = <<>>
  /\ IF tokens # 0
     THEN /\ events' = <<Event("refresh", tokens)>>
          /\ access_token' = tokens
          /\ pc' = "done"
          /\ result' = TokensReturned
     ELSE /\ events' = <<Event("refresh", tokens), Event("authenticate", tokens)>>
          /\ access_token' = access_token
          /\ pc' = "request_token"
          /\ result' = NoResult
  /\ UNCHANGED <<tokens, tokenFile, verifier, serverRunning, token_data>>
  /\ UNCHANGED <<syncVars, rfPc, rf, mainPc, mainLog, storeVars, auxVars>>

\* The caller has the pair, or the exception.
AuthReturn ==
  /\ caller \in OwnHandshake
  /\ pc = "done"
  /\ caller' = "none"
  /\ LeaveRequest
  /\ UNCHANGED <<syncVars, tokenVars, rfPc, rf, mainPc, mainLog, storeVars, auxVars>>

\* ------------------------------------------- get_historical_food_entries
FirstDay == <<2025, 4, 7>>

RangeStarts == {FirstDay, CivilFromDays(DaysFromCivil(FirstDay) + 1)}

RangeEnds ==
  {CivilFromDays(d) : d \in (DaysFromCivil(FirstDay) - 1)..(DaysFromCivil(FirstDay) + MaxSpan - 1)}

\* The last day left out.
RangeContinuesExclusive(current, end) == current < end

\* api.py:221: while current <= end
RangeContinues(current, end) == current <= end

\* api.py:214-220: both dates parsed, current = start.
EnterRange(start_date, end_date) ==
  /\ rfPc' = "loop"
  /\ rf' = [start |-> DaysFromCivil(start_date), end |-> DaysFromCivil(end_date),
            current |-> DaysFromCivil(start_date), all_entries |-> <<>>, calls |-> <<>>]

\* api.py:221-224: the loop test, and the day's call entered.
RangeLoop ==
  /\ rfPc = "loop"
  /\ pc = "idle"
  /\ IF RangeContinues(rf.current, rf.end)
     THEN /\ EnterRequest
          /\ UNCHANGED <<rfPc, rf>>
     ELSE /\ rfPc' = "done"
          /\ UNCHANGED <<rf, callVars>>
  /\ UNCHANGED <<syncVars, tokenVars, caller, mainPc, mainLog, storeVars, auxVars>>

\* api.py:225-228: the day's data appended, or its exception caught; next day.
RangeCollect ==
  /\ rfPc = "loop"
  /\ pc = "done"
  /\ rf' = [rf EXCEPT
       !.all_entries = IF result.kind = "ok" THEN Append(@, result.data) ELSE @,
       !.calls = Append(@, [date |-> rf.current, outcome |-> result.kind, data |-> result.data]),
       !.current = @ + 1]
  /\ mainLog' = IF caller = "main" THEN Counted(mainLog, result) ELSE mainLog
  /\ LeaveRequest
  /\ UNCHANGED <<syncVars, tokenVars, caller, rfPc, mainPc, storeVars, auxVars>>

StartRange ==
  /\ Idle
  /\ caller' = "range"
  /\ \E start_date \in RangeStarts, end_date \in RangeEnds : EnterRange(start_date, end_date)
  /\ UNCHANGED <<syncVars, tokenVars, callVars, mainPc, mainLog, storeVars, auxVars>>

FinishRange ==
  /\ caller = "range"
  /\ rfPc = "done"
  /\ caller' = "none"
  /\ rfPc' = "idle"
  /\ rf' = NoRange
  /\ UNCHANGED <<syncVars, tokenVars, callVars, mainPc, mainLog, storeVars, auxVars>>

\* ------------------------------------------------------------------- main
\* main.py:71-94 over the daily results from index i on: the entries with a
\* food_entry_id whose fingerprint has not been seen, in fetch order.
RECURSIVE CollectUnique(_, _)
CollectUnique(fetched, kept) ==
  IF fetched = <<>> THEN kept
  ELSE LET entry == Head(fetched)
       IN IF /\ isinstance_dict(entry)
             /\ Get(EntryOf(entry), "food_entry_id") # <<>>
             /\ FingerprintOf[entry] \notin {FingerprintOf[k] : k \in Range(kept)}
          THEN CollectUnique(Tail(fetched), Append(kept, entry))
          ELSE CollectUnique(Tail(fetched), kept)

\* The items the loops of lines 71-85 reach, in order: those of the days
\* before the first day that raises (lines 104-106 end the loops there).
RECURSIVE Flatten(_)
Flatten(daily_results) ==
  IF daily_results = <<>> THEN <<>>
  ELSE IF RaisesInDay(Head(daily_results)) THEN <<>>
  ELSE PayloadEntries(Head(daily_results)) \o Flatten(Tail(daily_results))

\* The exception of a day leaves the function: nothing is returned.
get_historical_entries_losing_all(daily_results) ==
  IF \E i \in 1..Len(daily_results) : RaisesInDay(daily_results[i])
  THEN <<>>
  ELSE CollectUnique(Flatten(daily_results), <<>>)

get_historical_entries(daily_results) == CollectUnique(Flatten(daily_results), <<>>)

\* main.py:206-207: `except Exception` around the whole body: whatever was
\* raised inside, main returns normally.
MainOutcome(raised) == "returned"

\* main.py:170-180: without a token file main returns; else the auth and the
\* client are built from the file and get_user_weight is called.
MainStart ==
  /\ Idle
  /\ caller' = "main"
  /\ IF tokenFile = 0
     THEN /\ mainPc' = "done"
          /\ mainLog' = [NoMain EXCEPT !.outcome = MainOutcome(FALSE)]
          /\ UNCHANGED <<tokenVars, callVars>>
     ELSE /\ mainPc' = "weight"
          /\ mainLog' = NoMain
          /\ tokens' = tokenFile
          /\ access_token' = tokenFile
          /\ verifier' = 0
          /\ token_data' = 0
          /\ UNCHANGED <<tokenFile, serverRunning>>
          /\ EnterRequest
  /\ UNCHANGED <<syncVars, rfPc, rf, storeVars, auxVars>>

\* main.py:179-189: the weight call's exception is caught; the range from
\* 2025-04-07 to today (Kyiv) is fetched.
MainHistory ==
  /\ caller = "main"
  /\ mainPc = "weight"
  /\ pc = "done"
  /\ mainPc' = "history"
  /\ mainLog' = Counted(mainLog, result)
  /\ LeaveRequest
  /\ \E today \in RangeEnds : EnterRange(FirstDay, today)
  /\ UNCHANGED <<syncVars, tokenVars, caller, storeVars, auxVars>>

\* main.py:189-210: nothing fetched, or Redis unreachable (its exception is
\* caught at 206), or the entries merged into the cache.
MainLoad ==
  /\ caller = "main"
  /\ mainPc = "history"
  /\ rfPc = "done"
  /\ mainPc' = "done"
  /\ rfPc' = "idle"
  /\ rf' = NoRange
  /\ LET all_entries == get_historical_entries(rf.all_entries)
     IN IF all_entries = <<>>
        THEN /\ mainLog' = [mainLog EXCEPT !.outcome = MainOutcome(FALSE)]
             /\ UNCHANGED syncVars
        ELSE \/ /\ mainLog' = [mainLog EXCEPT !.outcome = MainOutcome(TRUE)]
                /\ UNCHANGED syncVars
             \/ /\ mainLog' = [mainLog EXCEPT !.outcome = MainOutcome(FALSE)]
                /\ load_entries_to_redis(all_entries)
  /\ UNCHANGED <<tokenVars, callVars, caller, storeVars, auxVars>>

MainFinish ==
  /\ caller = "main"
  /\ mainPc = "done"
  /\ caller' = "none"
  /\ mainPc' = "idle"
  /\ mainLog' = NoMain
  /\ UNCHANGED <<syncVars, tokenVars, callVars, rfPc, rf, storeVars, auxVars>>

\* ------------------------------------------------------------ token stores
NotSaving == [pc |-> "idle", tokens |-> <<>>, before |-> Absent]

NoOther ==
  [kind |-> "none", tokens |-> <<>>, error |-> "none", seen |-> Absent, during |-> "idle"]

\* TokenManager.__init__ / CredentialEngine.__init__: self.tokens is what
\* _load_tokens returns; when it raises, no store comes to be.
Construct ==
  /\ store.pc = "new"
  /\ store' = IF _load_tokens(storeClass, disk).kind = "raised"
              THEN [pc |-> "raised", tokens |-> <<>>]
              ELSE [pc |-> "ready", tokens |-> _load_tokens(storeClass, disk).tokens]
  /\ UNCHANGED <<storeClass, disk, save, other>>
  /\ UNCHANGED <<syncVars, tokenVars, callVars, opVars, auxVars>>

\* save_tokens up to the write: open(self.token_file, "w") has created or
\* emptied the file; json.dump's output waits in the file object's buffer.
SaveOpen(pair) ==
  /\ store.pc = "ready"
  /\ save.pc # "open"
  /\ save' = [pc |-> "open", tokens |-> pair, before |-> disk]
  /\ disk' = File(<<>>)
  /\ UNCHANGED <<storeClass, store, other>>
  /\ UNCHANGED <<syncVars, tokenVars, callVars, opVars, auxVars>>

\* The with block ends: the buffer is written and the file closed, then
\* self.tokens = tokens.
SaveClose ==
  /\ save.pc = "open"
  /\ disk' = File(json_dump(save.tokens, Indented(storeClass)))
  /\ store' = [store EXCEPT !.tokens = save.tokens]
  /\ save' = [save EXCEPT !.pc = "saved"]
  /\ UNCHANGED <<storeClass, other>>
  /\ UNCHANGED <<syncVars, tokenVars, callVars, opVars, auxVars>>

\* os.remove(path): the file is gone, or FileNotFoundError when there is none.
os_remove(file) ==
  IF file.exists THEN [raised |-> FALSE, file |-> Absent]
  ELSE [raised |-> TRUE, file |-> file]

\* clear_tokens from the state of the file after its first statement on:
\* self.tokens = {} is reached when os.remove did not raise.
Cleared(removed) ==
  /\ store.pc = "ready"
  /\ save.pc # "open"
  /\ storeClass # "CredentialEngine"
  /\ disk' = removed.file
  /\ store' = IF removed.raised THEN store ELSE [store EXCEPT !.tokens = <<>>]
  /\ save' = [pc |-> IF removed.raised THEN "clear_raised" ELSE "cleared",
              tokens |-> <<>>, before |-> disk]
  /\ UNCHANGED <<storeClass, other>>
  /\ UNCHANGED <<syncVars, tokenVars, callVars, opVars, auxVars>>

\* The file removed and self.tokens left as it was.
clear_tokens_keeping_memory ==
  /\ store.pc = "ready"
  /\ save.pc # "open"
  /\ storeClass # "CredentialEngine"
  /\ disk' = Absent
  /\ save' = [pc |-> "cleared", tokens |-> <<>>, before |-> disk]
  /\ UNCHANGED <<storeClass, store, other>>
  /\ UNCHANGED <<syncVars, tokenVars, callVars, opVars, auxVars>>

\* TokenManager.clear_tokens; CredentialEngine has none. os.remove is called
\* when the file exists.
clear_tokens ==
  Cleared(IF disk.exists THEN os_remove(disk) ELSE [raised |-> FALSE, file |-> disk])

\* Another process builds a store of the same class on the same file, at any
\* moment: what its _load_tokens gave, the file it read, and where the first
\* store's save_tokens stood.
OtherConstruct ==
  /\ other' = [kind |-> _load_tokens(storeClass, disk).kind,
               tokens |-> _load_tokens(storeClass, disk).tokens,
               error |-> _load_tokens(storeClass, disk).error,
               seen |-> disk,
               during |-> save.pc]
  /\ UNCHANGED <<storeClass, disk, store, save>>
  /\ UNCHANGED <<syncVars, tokenVars, callVars, opVars, auxVars>>

\* ------------------------------------------------------ historical loader
NoHist == [pc |-> "idle", force |-> FALSE, files |-> 0]

HistQuiet == hist = NoHist

\* load_historical_to_redis.py:29-36: the dates of the bucket keys; when the
\* KEYS command raises, the exception is swallowed and the set is empty.
get_existing_dates(b, keys_raises) == IF keys_raises THEN {} ELSE DOMAIN b

\* Lines 82-89: an entry of the file is looked at further when it has a
\* date_int that converts.
HistGroupable(entry) == HasKey[entry, "date_int"] /\ HumanDateOf[entry] # <<>>

\* Lines 79-94: date_groups[date], the entries of a date that is not among
\* the existing dates, in file order.
HistDateGroup(entries, existing_dates, date) ==
  SelectSeq(entries, LAMBDA e : /\ HistGroupable(e)
                                /\ HumanDateOf[e] = date
                                /\ date \notin existing_dates)

\* The keys of date_groups in insertion order.
RECURSIVE HistGroupOrder(_, _)
HistGroupOrder(entries, existing_dates) ==
  IF entries = <<>> THEN <<>>
  ELSE LET front == HistGroupOrder(SubSeq(entries, 1, Len(entries) - 1), existing_dates)
           e     == entries[Len(entries)]
       IN IF /\ HistGroupable(e)
             /\ HumanDateOf[e] \notin existing_dates
             /\ HumanDateOf[e] \notin Range(front)
          THEN Append(front, HumanDateOf[e])
          ELSE front

\* How the two Redis commands of a date can end (lines 99-105): both done,
\* SET raised RedisError, or HSET raised it after SET was done.
WriteOutcomes == {"ok", "set_raised", "hset_raised"}

\* Lines 97-105 for the dates order[i..]: each bucket is SET to the items of
\* the file, whatever the key held, and the mapping is HSET to the date_int
\* of the first item; a RedisError is printed and the loop goes on.
RECURSIVE ProcessLoop(_, _, _, _, _, _)
ProcessLoop(entries, existing_dates, order, i, st, faults) ==
  IF i > Len(order) THEN st
  ELSE LET date  == order[i]
           items == HistDateGroup(entries, existing_dates, date)
       IN IF faults[date] = "set_raised"
          THEN ProcessLoop(entries, existing_dates, order, i + 1, st, faults)
          ELSE IF faults[date] = "hset_raised"
          THEN ProcessLoop(entries, existing_dates, order, i + 1,
                 [st EXCEPT !.b = Put(st.b, date, items)], faults)
          ELSE ProcessLoop(entries, existing_dates, order, i + 1,
                 [b |-> Put(st.b, date, items),
                  m |-> Put(st.m, date, EntryOf(items[1])["date_int"]),
                  w |-> Append(st.w, date),
                  loaded |-> st.loaded + Len(items)], faults)

\* Lines 57-105: process_file(file_path, redis_client, force_reload) on a
\* file that holds `entries`; a file that cannot be read or parsed ends the
\* call (lines 75-77).
process_file(entries, readable, keys_raises, faults) ==
  /\ hist.pc = "files"
  /\ hist.files > 0
  /\ hist' = [hist EXCEPT !.files = @ - 1]
  /\ IF ~readable
     THEN UNCHANGED syncVars
     ELSE \E existing_dates \in {IF hist.force THEN {} ELSE get_existing_dates(buckets, keys_raises)} :
          \E r \in {ProcessLoop(entries, existing_dates, HistGroupOrder(entries, existing_dates), 1,
                                 [b |-> buckets, m |-> date_mappings, w |-> <<>>, loaded |-> 0],
                                 faults)} :
            /\ buckets' = r.b
            /\ date_mappings' = r.m
            /\ writes' = r.w
            /\ lastBatch' = entries
            /\ loaded_count' = r.loaded
            /\ skipped_count' =
                 Len(SelectSeq(entries, LAMBDA e : HistGroupable(e) /\ HumanDateOf[e] \in existing_dates))
  /\ UNCHANGED <<tokenVars, callVars, opVars, storeVars, fnVars>>

\* Lines 127-154: main up to its loop. With --force every food_entries:* key
\* is deleted, and date_mappings with them, when there is any such key.
HistMain(force_reload, files) ==
  /\ hist.pc = "idle"
  /\ hist' = [pc |-> "files", force |-> force_reload, files |-> files]
  /\ IF force_reload /\ DOMAIN buckets # {}
     THEN /\ buckets' = <<>>
          /\ date_mappings' = <<>>
     ELSE UNCHANGED <<buckets, date_mappings>>
  /\ UNCHANGED <<lastBatch, writes, loaded_count, skipped_count>>
  /\ UNCHANGED <<tokenVars, callVars, opVars, storeVars, fnVars>>

\* Lines 152-163: no file, or none left.
HistReturn ==
  /\ hist.pc = "files"
  /\ hist.files = 0
  /\ hist' = NoHist
  /\ UNCHANGED <<syncVars, tokenVars, callVars, opVars, storeVars, fnVars>>

\* The daily sync between two runs of the loader.
HistLoad(entries) ==
  /\ hist.pc = "idle"
  /\ load_entries_to_redis(entries)
  /\ UNCHANGED <<tokenVars, callVars, opVars, storeVars, auxVars>>

\* ------------------------------------------------- calls of pure functions
\* No call made, no loader run.
FnQuiet ==
  /\ response = <<>>
  /\ outcome = NotCalled
  /\ signed = <<>>
  /\ historical_entries = <<>>
  /\ collected = [pc |-> "none", entries |-> <<>>]

\* main.py:58-106: get_historical_entries on the list that
\* api.get_historical_food_entries returned; it always returns a list.
CallGetHistoricalEntries ==
  /\ collected.pc = "none"
  /\ collected' = [pc |-> "returned", entries |-> get_historical_entries(historical_entries)]
  /\ UNCHANGED <<response, outcome, signed, historical_entries>>
  /\ UNCHANGED <<syncVars, tokenVars, callVars, opVars, storeVars, histVars>>

\* Fatsecret.valid_response(response) called once on the response.
CallValidResponse ==
  /\ outcome = NotCalled
  /\ outcome' = valid_response(response)
  /\ UNCHANGED <<response, signed, historical_entries, collected>>
  /\ UNCHANGED <<syncVars, tokenVars, callVars, opVars, storeVars, histVars>>

\* _generate_signature called by one of the signers on a parameter dict; two
\* calls are kept.
Sign(signer, params) ==
  /\ Len(signed) < 2
  /\ signed' = Append(signed,
       [class |-> signer.class,
        params |-> params,
        param_string |-> ParamString(params),
        signature |-> _generate_signature(signer.url, params, signer.token_secret)])
  /\ UNCHANGED <<response, outcome, historical_entries, collected>>
  /\ UNCHANGED <<syncVars, tokenVars, callVars, opVars, storeVars, histVars>>

\* ---------------------------------------------------------- specifications
\* The state after FatSecretAuth and FatSecretAPI are built on a token file
\* that holds a pair, with an empty cache.
SyncInit ==
  /\ buckets = <<>>
  /\ date_mappings = <<>>
  /\ lastBatch = <<>>
  /\ writes = <<>>
  /\ loaded_count = 0
  /\ skipped_count = 0

ApiInit ==
  /\ tokens = 1
  /\ tokenFile = 1
  /\ access_token = 1
  /\ verifier = 0
  /\ serverRunning = FALSE
  /\ token_data = 0
  /\ pc = "idle"
  /\ attempt = 0
  /\ responses = <<>>
  /\ events = <<>>
  /\ result = NoResult
  /\ caller = "none"
  /\ rfPc = "idle"
  /\ rf = NoRange
  /\ mainPc = "idle"
  /\ mainLog = NoMain

\* The token file holds the pair of ApiInit; no store call is in progress.
StoreQuiet ==
  /\ storeClass = "auth.TokenManager"
  /\ disk = File(json_dump(TokenPair(<<"a">>, <<"s">>), FALSE))
  /\ store = [pc |-> "ready", tokens |-> TokenPair(<<"a">>, <<"s">>)]
  /\ save = NotSaving
  /\ other = NoOther

Init == SyncInit /\ ApiInit /\ StoreQuiet /\ FnQuiet /\ HistQuiet

\* The files a token store can find: none, a zero-byte file, an empty dict, a
\* pair as either save_tokens writes it, and such a file cut short.
CutShort(text) == SubSeq(text, 1, Len(text) - 1)

InitialFiles ==
  {Absent, File(<<>>), File(<<"{", "}">>)}
    \cup {File(json_dump(p, indent)) : p \in TokenPairs, indent \in BOOLEAN}
    \cup {File(CutShort(json_dump(p, FALSE))) : p \in TokenPairs}

\* Before a store of any of the three classes is built on any such file.
StoreInit ==
  /\ storeClass \in StoreClasses
  /\ disk \in InitialFiles
  /\ store = [pc |-> "new", tokens |-> <<>>]
  /\ save = NotSaving
  /\ other = NoOther

\* One store under save_tokens and clear_tokens, and stores built by other
\* processes on its file.
StoreNext ==
  \/ Construct
  \/ \E pair \in TokenPairs : SaveOpen(pair)
  \/ SaveClose
  \/ clear_tokens
  \/ OtherConstruct

StoreStart == SyncInit /\ ApiInit /\ StoreInit /\ FnQuiet /\ HistQuiet

StoreSpec == StoreStart /\ [][StoreNext]_vars

\* valid_response on every JSON dict of the model.
ResponseInit ==
  /\ SyncInit /\ ApiInit /\ StoreQuiet /\ HistQuiet
  /\ response \in JsonResponses
  /\ outcome = NotCalled
  /\ signed = <<>>
  /\ historical_entries = <<>>
  /\ collected = [pc |-> "none", entries |-> <<>>]

ResponseNext == CallValidResponse

ResponseSpec == ResponseInit /\ [][ResponseNext]_vars

\* get_historical_entries on every list of up to MaxSpan daily results.
CollectInit ==
  /\ SyncInit /\ ApiInit /\ StoreQuiet /\ HistQuiet
  /\ response = <<>>
  /\ outcome = NotCalled
  /\ signed = <<>>
  /\ historical_entries \in SeqsUpTo(DailyResults, MaxSpan)
  /\ collected = [pc |-> "none", entries |-> <<>>]

CollectNext == CallGetHistoricalEntries

CollectSpec == CollectInit /\ [][CollectNext]_vars

\* Two signatures over any two parameter dicts.
SignNext == \E signer \in Signers, params \in ParamMappings : Sign(signer, params)

SignSpec == Init /\ [][SignNext]_vars

\* The cache under the historical loader, run with and without --force on
\* up to MaxFiles files, and under the daily sync between its runs.
HistNext ==
  \/ \E force_reload \in BOOLEAN, files \in 0..MaxFiles : HistMain(force_reload, files)
  \/ \E entries \in Batches, keys_raises \in (IF hist.force THEN {FALSE} ELSE BOOLEAN) :
       \E faults \in [Range(HistGroupOrder(entries, IF hist.force \/ keys_raises
                                                      THEN {} ELSE DOMAIN buckets))
                         -> WriteOutcomes] :
         process_file(entries, TRUE, keys_raises, faults)
  \/ process_file(<<>>, FALSE, FALSE, <<>>)
  \/ HistReturn
  \/ \E entries \in Batches : HistLoad(entries)

HistSpec == Init /\ [][HistNext]_vars

\* The cache under load_entries_to_redis runs with arbitrary batches.
SyncNext ==
  /\ \E entries \in Batches : load_entries_to_redis(entries)
  /\ UNCHANGED <<tokenVars, callVars, opVars, storeVars, auxVars>>

SyncSpec == Init /\ [][SyncNext]_vars

\* The client: single calls, range fetches, main runs, logout, the callback.
ApiNext ==
  \/ StartCall
  \/ MakeRequestStep
  \/ FinishCall
  \/ logout
  \/ \E v \in 1..MaxToken : Callback(v)
  \/ StartRange
  \/ RangeLoop
  \/ RangeCollect
  \/ FinishRange
  \/ MainStart
  \/ MainHistory
  \/ MainLoad
  \/ MainFinish

ApiSpec == Init /\ [][ApiNext]_vars

\* authenticate called on its own or by FatSecretAPI.__init__, with logout
\* between the calls and the callback route open once the listener runs.
AuthNext ==
  \/ authenticate
  \/ FatSecretAPI_init
  \/ HandshakeStep
  \/ \E v \in 1..MaxToken : Callback(v)
  \/ AuthReturn
  \/ logout

AuthSpec == Init /\ [][AuthNext]_vars

\* The same, with the thread that runs authenticate taking its steps whenever
\* it can. The callback is a request of the user's browser to the listener:
\* nothing in the program makes it arrive, so it gets no fairness.
AuthLiveSpec ==
  /\ Init
  /\ [][AuthNext]_vars
  /\ WF_vars(HandshakeStep)
  /\ WF_vars(AuthReturn)

\* ------------------------------------------------------ claims on the merge
DistinctFingerprints(entries) ==
  \A i, j \in 1..Len(entries) :
    FingerprintOf[entries[i]] = FingerprintOf[entries[j]] => i = j

AllBucketsDistinct(b) == \A date \in DOMAIN b : DistinctFingerprints(b[date])

\* C1: a load_entries_to_redis run on a cache whose buckets each hold
\* pairwise-distinct fingerprints leaves every bucket it wrote with
\* pairwise-distinct fingerprints, whatever the batch.
C1_MergeKeepsFingerprintsDistinct ==
  [][AllBucketsDistinct(buckets)
       => \A i \in 1..Len(writes') : DistinctFingerprints(buckets'[writes'[i]])]_vars

\* C2: a second run in a row with the same batch writes nothing and leaves
\* every bucket as the first run left it.
C2_SecondRunWritesNothing ==
  [][lastBatch' = lastBatch => writes' = <<>> /\ buckets' = buckets]_vars

\* The entries of a list with the fingerprint of f, and the others.
WithFingerprintOf(entries, f) ==
  SelectSeq(entries, LAMBDA e : FingerprintOf[e] = FingerprintOf[f])

OthersThan(entries, f) ==
  SelectSeq(entries, LAMBDA e : FingerprintOf[e] # FingerprintOf[f])

IsPrefix(s, t) == Len(s) <= Len(t) /\ SubSeq(t, 1, Len(s)) = s

\* The bucket of `date` holds an entry that the fetched entry f replaces: same
\* fingerprint, different content; f is the one entry of the batch with it.
Replaces(batch, b, date, f) ==
  /\ Groupable(f)
  /\ HumanDateOf[f] = date
  /\ Len(WithFingerprintOf(batch, f)) = 1
  /\ DistinctFingerprints(b[date])
  /\ \E e \in Range(b[date]) : FingerprintOf[e] = FingerprintOf[f] /\ ~SameDict[e, f]

BucketsHolding(e) == {date \in DOMAIN buckets : e \in Range(buckets[date])}

\* C13 as stated: the entry with date_int 20180 and food_entry_id 'a' is in
\* the bucket keyed '2025-04-07' after a run that fetched it.
C13_PlacedOnApril7 ==
  "C" \in Range(lastBatch) =>
    \E date \in BucketsHolding("C") :
      strftime(date) = <<"2", "0", "2", "5", "-", "0", "4", "-", "0", "7">>

\* C13 as amended: 20180 days after 1970-01-01 is 2025-04-02, and the entry is
\* in the bucket keyed '2025-04-02' and in no other; 2025-04-07 is day 20185.
C13_PlacedOnApril2 ==
  /\ EntryC["date_int"] = <<"2", "0", "1", "8", "0">>
  /\ EntryC["food_entry_id"] = <<"a">>
  /\ strftime(convert_days_to_date(EntryC["date_int"]))
       = <<"2", "0", "2", "5", "-", "0", "4", "-", "0", "2">>
  /\ strftime(convert_days_to_date(<<"2", "0", "1", "8", "5">>))
       = <<"2", "0", "2", "5", "-", "0", "4", "-", "0", "7">>
  /\ "C" \in Range(lastBatch) =>
       /\ BucketsHolding("C") # {}
       /\ \A date \in BucketsHolding("C") :
            strftime(date) = <<"2", "0", "2", "5", "-", "0", "4", "-", "0", "2">>
  /\ \A date \in DOMAIN buckets :
       \A i \in 1..Len(buckets[date]) : HumanDateOf[buckets[date][i]] = date

C13_Witness ==
  /\ lastBatch = <<"C">>
  /\ writes = <<(<<2025, 4, 2>>)>>
  /\ buckets[<<2025, 4, 2>>] = <<"C">>

\* The positions of a batch whose entry has no date_int, and those whose entry
\* has one and is invalid for another reason (no food_entry_id, or a date_int
\* that does not convert).
MissingDateInt(batch) == {i \in 1..Len(batch) : ~Has(EntryOf(batch[i]), "date_int")}

OtherwiseInvalid(batch) ==
  {i \in 1..Len(batch) :
     /\ Has(EntryOf(batch[i]), "date_int")
     /\ \/ ~Has(EntryOf(batch[i]), "food_entry_id")
        \/ convert_days_to_date(EntryOf(batch[i])["date_int"]) = <<>>}

\* C14: after a run, each entry of the batch without date_int has added one
\* to the skipped counter and has caused no write (every date written is the
\* date of an entry that has a date_int, and a batch of such entries alone
\* writes nothing), and every other entry of the batch was still merged: it
\* is counted as loaded and its fingerprint is in the bucket of its date.
C14_MissingDateIntSkipped ==
  /\ skipped_count = Cardinality(MissingDateInt(lastBatch)) + Cardinality(OtherwiseInvalid(lastBatch))
  /\ loaded_count = Len(lastBatch) - skipped_count
  /\ \A k \in 1..Len(writes) :
       \E i \in (1..Len(lastBatch)) \ MissingDateInt(lastBatch) :
         convert_days_to_date(EntryOf(lastBatch[i])["date_int"]) = writes[k]
  /\ MissingDateInt(lastBatch) = 1..Len(lastBatch) => writes = <<>>
  /\ \A i \in (1..Len(lastBatch)) \ (MissingDateInt(lastBatch) \cup OtherwiseInvalid(lastBatch)) :
       LET date == convert_days_to_date(EntryOf(lastBatch[i])["date_int"])
       IN /\ date \in DOMAIN buckets
          /\ date \in DOMAIN date_mappings
          /\ WithFingerprintOf(buckets[date], lastBatch[i]) # <<>>

C14_Witness ==
  /\ lastBatch = <<"NoDate", "A1">>
  /\ skipped_count = 1
  /\ loaded_count = 1
  /\ writes = <<(<<2025, 4, 7>>)>>
  /\ buckets[<<2025, 4, 7>>] = <<"A1">>

StoredFingerprints(b, date) ==
  IF date \in DOMAIN b THEN {FingerprintOf[e] : e \in Range(b[date])} ELSE {}

\* Key k is the same in f and f2: absent in both, or present with one value.
SameAt(f, f2, k) ==
  /\ k \in DOMAIN f <=> k \in DOMAIN f2
  /\ k \in DOMAIN f => f[k] = f2[k]

\* C29: a run of load_entries_to_redis removes no bucket and no fingerprint
\* from a bucket (the fingerprints of every date after the run include those
\* before it), and leaves the bucket and the date mapping of every date
\* that has no valid entry in the batch as they were.
C29_RunsOnlyAdd ==
  [][/\ \A date \in DOMAIN buckets :
          /\ date \in DOMAIN buckets'
          /\ StoredFingerprints(buckets, date) \subseteq StoredFingerprints(buckets', date)
     /\ \A date \in (DOMAIN buckets \cup DOMAIN buckets' \cup
                      DOMAIN date_mappings \cup DOMAIN date_mappings')
                       \ Range(GroupOrderOf[lastBatch']) :
          /\ SameAt(buckets, buckets', date)
          /\ SameAt(date_mappings, date_mappings', date)]_vars

\* The last run fetched A2 alone: the bucket of April 7 still holds B, which
\* the batch did not have, and the bucket of April 2 is as it was.
C29_Witness ==
  /\ lastBatch = <<"A2">>
  /\ writes = <<(<<2025, 4, 7>>)>>
  /\ DOMAIN buckets = {<<2025, 4, 7>>, <<2025, 4, 2>>}
  /\ buckets[<<2025, 4, 7>>] = <<"B", "A2">>
  /\ buckets[<<2025, 4, 2>>] = <<"C">>

\* Some date of b has no bucket in b2, or its bucket in b2 lacks the
\* fingerprint of an entry it held in b.
Lost(b, b2) ==
  \E date \in DOMAIN b :
    \/ date \notin DOMAIN b2
    \/ \E e \in Range(b[date]) :
         FingerprintOf[e] \notin {FingerprintOf[x] : x \in Range(b2[date])}

\* C26: a bucket key is deleted, or a bucket replaced by one that lacks an
\* entry it held, only by a run of the historical loader with --force.
C26_OnlyForceDeletes == [][Lost(buckets, buckets') => hist'.force]_vars

\* --------------------------------------------------- claims on the client
CountOf(log, kind) == Cardinality({i \in 1..Len(log) : log[i].e = kind})

Requests == CountOf(events, "get")
Refreshes == CountOf(events, "refresh")
Handshakes == CountOf(events, "handshake")

\* The one response of the model that is a non-200 whose body holds 'token'.
TokenFailure(r) == r = Failed(401, BodyToken)

TokenFailures == Cardinality({i \in 1..Len(responses) : TokenFailure(responses[i])})

AllTokenFailures ==
  /\ responses # <<>>
  /\ \A i \in 1..Len(responses) : TokenFailure(responses[i])

LastResponse == responses[Len(responses)]

\* C3 as stated: at most max_retries GETs in total when every response is a
\* token-related non-200.
C3_AtMostMaxRetriesRequests == AllTokenFailures => Requests <= max_retries

\* C3 as amended: at most max_retries + 1 GETs (the first attempt and
\* max_retries retries), and exactly that many when the call ends with the
\* API error of the last response.
C3_AtMostMaxRetriesRetries ==
  AllTokenFailures =>
    /\ Requests <= max_retries + 1
    /\ (pc = "done" /\ result.kind = "api_error" => Requests = max_retries + 1)

C3_Witness ==
  pc = "done" /\ AllTokenFailures /\ result.kind = "api_error" /\ Requests = max_retries + 1

\* C4 as stated: at most one token refresh during one call.
C4_SingleRefresh == Refreshes <= 1

\* C4 as amended: one refresh for each token-related non-200 received while
\* retries remain, so at most max_retries of them.
C4_RefreshPerTokenFailure ==
  /\ Refreshes <= max_retries
  /\ Refreshes <= TokenFailures
  /\ (pc = "done" /\ result.kind = "api_error" /\ TokenFailure(LastResponse)
        => Refreshes = TokenFailures - 1)

C4_Witness == pc = "done" /\ Refreshes = max_retries /\ TokenFailures = max_retries + 1

\* The GETs and refreshes of the call, in order.
GetsAndRefreshes ==
  LET kept == SelectSeq(events, LAMBDA ev : ev.e \in {"get", "refresh"})
  IN [i \in 1..Len(kept) |-> kept[i].e]

FirstRejectedSecondOk ==
  /\ Len(responses) >= 2
  /\ responses[1] = Failed(401, BodyToken)
  /\ responses[2].kind = "http"
  /\ responses[2].status = 200

ResponseOfGet(j) == responses[Cardinality({k \in 1..j : events[k].e = "get"})]

\* C6: once a refresh found a cached pair and the retry with it was rejected
\* as well, the full handshake runs before the call gives up.
C6_HandshakeWhenCachedPairRejected ==
  pc = "done" =>
    \A i \in 1..Len(events) :
      (/\ events[i].e = "refresh"
       /\ events[i].tok # 0
       /\ i < Len(events)
       /\ events[i + 1].e = "get"
       /\ TokenFailure(ResponseOfGet(i + 1)))
      => \E k \in (i + 1)..Len(events) : events[k].e = "handshake"

ApiError(r) == [kind |-> "api_error", status |-> r.status, text |-> r.text, data |-> NoData]

OtherFailure(r) == r.kind = "http" /\ r.status # 200 /\ ~TokenFailure(r)

\* C7: a non-200 that is not token-related ends the call at once, with no
\* further GET and no refresh, as an error carrying its status and body; a
\* token-related non-200 ends it the same way, and only once no retry is left.
C7_ApiErrorCarriesStatusAndBody ==
  /\ \A i \in 1..Len(responses) :
       OtherFailure(responses[i]) =>
         /\ i = Len(responses)
         /\ pc = "done"
         /\ events[Len(events)].e = "get"
         /\ result = ApiError(responses[i])
  /\ (pc = "done" /\ responses # <<>> /\ TokenFailure(LastResponse)
        /\ events[Len(events)].e = "get")
       => /\ attempt = max_retries
          /\ result = ApiError(LastResponse)

C7_Witness ==
  /\ pc = "done"
  /\ Len(responses) = 2
  /\ TokenFailure(responses[1])
  /\ responses[2] = Failed(500, BodyOther)
  /\ result = ApiError(Failed(500, BodyOther))

AllRaised ==
  /\ responses # <<>>
  /\ \A i \in 1..Len(responses) : responses[i] = Raised

C8_Outcome ==
  AllRaised =>
    /\ Refreshes = 0
    /\ Handshakes = 0
    /\ Requests = Len(responses)
    /\ Requests <= max_retries + 1
    /\ result.kind \in {"none", "network_error"}
    /\ IF pc = "done"
       THEN Requests = max_retries + 1 /\ result.kind = "network_error"
       ELSE pc = "send" /\ attempt = Requests /\ result.kind = "none"

C8_Progress ==
  (pc = "send" /\ responses' = Append(responses, Raised)) =>
     \/ pc' = "send" /\ attempt' = attempt + 1 /\ attempt' <= max_retries
     \/ pc' = "done" /\ attempt = max_retries

\* C8: when every attempt raises a transport error the call makes
\* max_retries retries after the first attempt, refreshes nothing, and ends
\* with the network error; each failure uses up one of the bounded attempts,
\* so the call terminates, and it never returns a response.
C8_NetworkErrorsExhaustRetries == []C8_Outcome /\ [][C8_Progress]_vars

C8_Witness ==
  pc = "done" /\ AllRaised /\ Len(responses) = max_retries + 1
    /\ result.kind = "network_error"

\* C27 as stated: whatever the answers, one call issues at most
\* max_retries + 1 HTTP GET requests; counted are the GETs of api.py:97 and
\* the request-token GETs that its token refreshes made.
C27_AtMostMaxRetriesPlusOneGets == Requests + Handshakes <= max_retries + 1

\* C27 as amended: whatever the interleaving of token-related non-200
\* answers and transport errors, one call sends at most max_retries + 1 GET
\* requests to the API (api.py:97): every GET is sent at an attempt number of
\* its own, both retry paths count on the one attempt argument, and that
\* never passes max_retries.
C27_SharedCounterBoundsApiGets ==
  /\ attempt <= max_retries
  /\ Requests = Len(responses)
  /\ Requests <= attempt + 1
  /\ pc = "send" => Requests = attempt
  /\ Requests <= max_retries + 1

\* A token failure, a transport error, a token failure: the third GET is the
\* last, and the call ends with its API error.
C27_Witness ==
  /\ pc = "done"
  /\ Len(responses) = max_retries + 1
  /\ TokenFailure(responses[1])
  /\ responses[2] = Raised
  /\ TokenFailure(responses[3])
  /\ Requests = max_retries + 1
  /\ result.kind = "api_error"

\* The items of the days before the first day that raises, in fetch order.
FetchOrder(days) ==
  LET bad   == {i \in 1..Len(days) : days[i] = "PBad"}
      upto  == IF bad = {} THEN Len(days) ELSE (CHOOSE i \in bad : \A j \in bad : i <= j) - 1
      Items[n \in 0..Len(days)] ==
        IF n = 0 THEN <<>> ELSE Items[n - 1] \o PayloadEntries(days[n])
  IN Items[upto]

\* A dict with a non-empty food_entry_id.
Identified(item) ==
  /\ item # "NotDict"
  /\ "food_entry_id" \in DOMAIN EntryOf(item)
  /\ EntryOf(item)["food_entry_id"] # <<>>

\* The positions of the items that are the first of their fingerprint.
FirstOfFingerprint(items) ==
  {i \in 1..Len(items) :
     /\ Identified(items[i])
     /\ \A j \in 1..(i - 1) :
          Identified(items[j]) =>
            create_entry_fingerprint(EntryOf(items[j])) # create_entry_fingerprint(EntryOf(items[i]))}

\* C28: the list get_historical_entries returns has pairwise-distinct
\* fingerprints and only entries with a non-empty food_entry_id; it holds, in
\* fetch order, the first entry of every fingerprint and drops the later
\* ones; when a day raises, the entries collected from the days before it
\* are returned.
C28_FirstOfEachFingerprintKept ==
  collected.pc = "returned" =>
    LET items == FetchOrder(historical_entries)
        kept  == collected.entries
    IN /\ \A i \in 1..Len(kept) : Identified(kept[i])
       /\ \A i, j \in 1..Len(kept) :
            create_entry_fingerprint(EntryOf(kept[i])) = create_entry_fingerprint(EntryOf(kept[j]))
              => i = j
       /\ Len(kept) = Cardinality(FirstOfFingerprint(items))
       /\ \A k \in 1..Len(kept) :
            \E i \in FirstOfFingerprint(items) :
              /\ items[i] = kept[k]
              /\ Cardinality({j \in FirstOfFingerprint(items) : j < i}) = k - 1

\* A day of four items and then a day that raises: the first of the two
\* entries with one fingerprint is kept, the entry with no food_entry_id is
\* not, and the list is returned.
C28_Witness ==
  /\ collected.pc = "returned"
  /\ historical_entries = <<"P3", "PBad">>
  /\ collected.entries = <<"B", "A1">>

\* C9: a main run whose API calls all ended in network errors ends in a
\* failure its caller observes.
C9_FailuresPropagateOutOfMain ==
  (mainPc = "done" /\ mainLog.calls > 0 /\ mainLog.network = mainLog.calls)
    => mainLog.outcome = "raised"

\* The data of the calls that did not raise, in call order.
RECURSIVE Returned(_)
Returned(calls) ==
  IF calls = <<>> THEN <<>>
  ELSE IF Head(calls).outcome = "ok"
       THEN <<Head(calls).data>> \o Returned(Tail(calls))
       ELSE Returned(Tail(calls))

\* C10: one call per day of [start, end] in ascending order, none when
\* start > end; a raising day is skipped and the later days are still
\* called; the list returned holds the responses of the other days in order.
C10_OneCallPerDay ==
  /\ \A i \in 1..Len(rf.calls) : rf.calls[i].date = rf.start + i - 1
  /\ rf.all_entries = Returned(rf.calls)
  /\ rfPc = "loop" =>
       /\ rf.current = rf.start + Len(rf.calls)
       /\ rf.calls # <<>> => rf.current <= rf.end + 1
  /\ rfPc = "done" =>
       Len(rf.calls) = (IF rf.start > rf.end THEN 0 ELSE rf.end - rf.start + 1)

C10_Witness ==
  /\ rfPc = "done"
  /\ Len(rf.calls) = 2
  /\ rf.calls[1].outcome # "ok"
  /\ rf.calls[2].outcome = "ok"
  /\ rf.all_entries = <<"P1">>

\* An item of the returned list that is no day's response and names `date` as
\* skipped.
SkipMark(item, date) == item \notin Payloads /\ item = [skipped |-> date]

\* C11: once the range fetch returns, every day whose call raised is marked as
\* skipped in the list handed to the caller.
C11_SkippedDayReported ==
  rfPc = "done" =>
    \A i \in 1..Len(rf.calls) :
      rf.calls[i].outcome # "ok" =>
        \E k \in 1..Len(rf.all_entries) : SkipMark(rf.all_entries[k], rf.calls[i].date)

\* ------------------------------------------------- claims on authenticate
\* The steps logged from the start of the authenticate run in progress.
AuthSteps ==
  LET starts == {i \in 1..Len(events) : events[i].e = "authenticate"}
  IN IF starts = {} THEN <<>>
     ELSE SubSeq(events, CHOOSE i \in starts : \A j \in starts : i <= j, Len(events))

StepKinds(steps) == [i \in 1..Len(steps) |-> steps[i].e]

\* A run that goes through the whole handshake.
FullRun == <<"authenticate", "handshake", "verifier", "exchange", "save", "return">>

\* C18: an authenticate run that found the token store empty goes through
\* request token, verifier, access token, save, in this order: the verifier
\* is waited for only after a 200 gave the request token, the exchange is
\* made only with a verifier, the store is written only after a 200 to the
\* exchange, and the pair then held by the store (memory and file) is the
\* pair saved and the pair returned; up to there the store stays empty.
C18_HandshakeOrder ==
  (AuthSteps # <<>> /\ AuthSteps[1].tok = 0) =>
    /\ IsPrefix(StepKinds(AuthSteps), FullRun)
    /\ Len(AuthSteps) >= 3 =>
         /\ AuthSteps[2].tok = 200
         /\ token_data # 0
         /\ AuthSteps[3].tok # 0
    /\ Len(AuthSteps) >= 5 =>
         /\ AuthSteps[4].tok = 200
         /\ Len(AuthSteps) = 6
         /\ AuthSteps[5].tok # 0
         /\ AuthSteps[6].tok = AuthSteps[5].tok
         /\ tokens = AuthSteps[5].tok
         /\ tokenFile = AuthSteps[5].tok
         /\ pc = "done"
         /\ result = TokensReturned
    /\ Len(AuthSteps) < 5 => tokens = 0 /\ tokenFile = 0

C18_Witness ==
  /\ caller = "authenticate"
  /\ pc = "done"
  /\ StepKinds(AuthSteps) = FullRun
  /\ token_data = 1
  /\ tokens = 2

\* A handshake request that got an HTTP answer other than 200.
Refused(step) == step.e \in {"handshake", "exchange"} /\ step.tok \notin {0, 200}

\* C19: a non-200 answer to the request-token request or to the access-token
\* request is the last step of the run: authenticate raises, no request
\* follows, and the token store is as the run found it.
C19_Non200EndsHandshake ==
  \A i \in 1..Len(AuthSteps) :
    Refused(AuthSteps[i]) =>
      /\ i = Len(AuthSteps)
      /\ pc = "done"
      /\ result.kind = "auth_error"
      /\ result.status = AuthSteps[i].tok
      /\ tokens = AuthSteps[1].tok
      /\ tokenFile = AuthSteps[1].tok

C19_Witness ==
  /\ caller = "authenticate"
  /\ pc = "done"
  /\ StepKinds(AuthSteps) = <<"authenticate", "handshake", "verifier", "exchange">>
  /\ AuthSteps[4].tok = 400
  /\ result.kind = "auth_error"

C20_CachedRun ==
  (caller = "authenticate" /\ events[1].tok # 0) =>
    /\ pc = "done"
    /\ result = TokensReturned
    /\ events = <<Event("authenticate", tokens), Event("return", tokens)>>
    /\ tokenFile = tokens

C20_CachedStep ==
  (caller = "none" /\ caller' = "authenticate" /\ tokens # 0) =>
    /\ UNCHANGED <<tokens, tokenFile, access_token, verifier, serverRunning, token_data>>
    /\ pc' = "done"
    /\ result' = TokensReturned
    /\ events' = <<Event("authenticate", tokens), Event("return", tokens)>>

\* C20: authenticate called while the token manager holds a pair returns
\* that pair in the one step: no request is made, the listener is not
\* started, and the token store (memory and file) is left as it is.
C20_CachedPairShortCircuits == []C20_CachedRun /\ [][C20_CachedStep]_vars

C20_Witness ==
  /\ caller = "authenticate"
  /\ pc = "done"
  /\ events = <<Event("authenticate", 2), Event("return", 2)>>
  /\ tokens = 2
  /\ serverRunning

\* C24: a handshake starts its wait in get_verifier with no verifier held,
\* so that the wait blocks until a callback that comes after this run's
\* request token, and the verifier handed to get_access_token is never one
\* that an earlier handshake of the same FatSecretAuth left behind.
C24_NoLeftOverVerifier ==
  [][(pc = "request_token" /\ pc' = "get_verifier") => verifier' = 0]_vars

\* C21: the wait for the verifier in get_verifier ends in every run, also
\* in one where no callback delivers a verifier.
C21_VerifierWaitEnds == (pc = "get_verifier") ~> (pc # "get_verifier")

\* ------------------------------------------------- claims on valid_response
HasErrorKey(json) == \E i \in 1..Len(json) : json[i].key = "error"

ErrorCodeOf(json) == json[CHOOSE i \in 1..Len(json) : json[i].key = "error"].code

ErrorClasses == {"GeneralError", "AuthenticationError", "ParameterError", "ApplicationError"}

\* The class the specification gives a code.
ClassOfCode(code) ==
  IF code \in {1, 10, 11, 12, 20, 21} THEN {"GeneralError"}
  ELSE IF code \in 2..9 THEN {"AuthenticationError"}
  ELSE IF code \in 101..108 THEN {"ParameterError"}
  ELSE IF code \in 201..207 THEN {"ApplicationError"}
  ELSE ErrorClasses

\* C22: valid_response called on a response whose JSON has an error key
\* raises one of the four error classes, the one of the code's range, and
\* never returns.
C22_ErrorResponsesRaise ==
  (outcome # NotCalled /\ HasErrorKey(response)) =>
    /\ outcome.kind = "raise"
    /\ outcome.class \in ClassOfCode(ErrorCodeOf(response))

\* --------------------------------------------- claims on _generate_signature
SamePairs(p, q) == Range(p) = Range(q)

\* C23: two calls of the same signer (same URL, consumer secret and token
\* secret) on dicts with the same (key, value) pairs, in whatever order they
\* were inserted, give the same parameter string and the same signature.
C23_SignatureIgnoresOrder ==
  \A i, j \in 1..Len(signed) :
    (signed[i].class = signed[j].class /\ SamePairs(signed[i].params, signed[j].params)) =>
      /\ signed[i].param_string = signed[j].param_string
      /\ signed[i].signature = signed[j].signature

C23_Witness ==
  /\ Len(signed) = 2
  /\ signed[1].class = signed[2].class
  /\ Len(signed[1].params) = 3
  /\ signed[1].params # signed[2].params
  /\ SamePairs(signed[1].params, signed[2].params)
  /\ signed[1].params[1][1] = <<"a", "b">>
  /\ signed[2].params[1][1] = <<"B">>
  /\ signed[1].signature = signed[2].signature

\* ------------------------------------------------ claims on the token stores
\* The bytes a finished save_tokens(pair) leaves in the file.
Written(pair) == File(json_dump(pair, Indented(storeClass)))

\* C15: a store built on the file while save_tokens is between its open and
\* its close reads either the file as save_tokens found it or the file as
\* save_tokens leaves it.
C15_LoadSeesOldOrNew ==
  [][(save.pc = "open" /\ other' # other)
       => other'.seen \in {save.before, Written(save.tokens)}]_vars

\* A file that is missing, zero-byte or no valid JSON.
Unreadable(file) == ~file.exists \/ file.text = <<>> \/ ~json_load(file.text).ok

\* C16: building a store, of whichever class, on a missing, zero-byte or
\* invalid file does not raise and leaves get_tokens() at None.
C16_LoadFailsSoft ==
  /\ store.pc # "raised"
  /\ (other.kind # "none" /\ Unreadable(other.seen)) =>
       /\ other.kind = "returned"
       /\ get_tokens(other.tokens).is_none

\* C17: once save_tokens(p) has returned, get_tokens() of the same store
\* gives p, and so does a store newly built on the file.
C17_SaveLoadRoundTrip ==
  save.pc = "saved" =>
    /\ save.tokens # <<>>
    /\ get_tokens(store.tokens) = [is_none |-> FALSE, value |-> save.tokens]
    /\ disk.exists
    /\ _load_tokens(storeClass, disk) = Loaded(save.tokens)
    /\ (other.during = "saved" /\ other.seen = disk) =>
         /\ other.kind = "returned"
         /\ get_tokens(other.tokens) = [is_none |-> FALSE, value |-> save.tokens]

\* C30: on a TokenManager whose file has no other writer, after save_tokens
\* and clear_tokens calls get_tokens() agrees with the file: after a save
\* of p it gives p and the file holds p as save_tokens writes it; after
\* clear_tokens it gives None and there is no file; clear_tokens does not
\* raise, with or without a file to remove.
C30_MemoryAgreesWithFile ==
  storeClass # "CredentialEngine" =>
    /\ save.pc # "clear_raised"
    /\ save.pc = "saved" =>
         /\ get_tokens(store.tokens) = [is_none |-> FALSE, value |-> save.tokens]
         /\ disk = Written(save.tokens)
         /\ json_load(disk.text) = Decoded(save.tokens, Len(disk.text) + 1)
    /\ save.pc = "cleared" =>
         /\ get_tokens(store.tokens).is_none
         /\ disk = Absent

\* A pair was saved (another process read it from the file), then
\* clear_tokens ran twice: the second call found no file.
C30_Witness ==
  /\ storeClass = "token_manager.TokenManager"
  /\ other.during = "saved"
  /\ other.tokens = TokenPair(<<"\"">>, <<"s">>)
  /\ save.pc = "cleared"
  /\ save.before = Absent
  /\ get_tokens(store.tokens).is_none

C17_Witness ==
  /\ save.pc = "saved"
  /\ save.tokens = TokenPair(<<"\"">>, <<"s">>)
  /\ storeClass = "CredentialEngine"
  /\ other.during = "saved"
  /\ other.seen = disk
  /\ other.tokens = save.tokens

====
